---- MODULE Spec2Model ----
(***************************************************************************)
(* Serial NOR configuration block of imxrt-boot-gen                        *)
(* (src/serial_flash/nor.rs): the SerialClockFrequency enumeration, the    *)
(* packed ConfigurationBlock record with its const builder, and the        *)
(* _STATIC_ASSERT_SIZE layout check.                                       *)
(*                                                                         *)
(* flexspi::ConfigurationBlock lives in another file of the crate.  It is  *)
(* kept abstract here: its device_type byte, one token standing for all    *)
(* of its other bytes, and its size in bytes.                              *)
(***************************************************************************)
EXTENDS Integers, Sequences, FiniteSets, TLC

VARIABLES
    feature,      \* the chip family feature the crate is built with
    arg_mem_cfg,  \* the flexspi::ConfigurationBlock last handed to new
    cb,           \* the nor::ConfigurationBlock value under construction
    last,         \* the last call of the construction chain and its argument
    layout,       \* the field list of struct ConfigurationBlock being compiled
    build         \* outcome of compiling _STATIC_ASSERT_SIZE for that layout

vars == <<feature, arg_mem_cfg, cb, last, layout, build>>

----------------------------------------------------------------------------
(* Bounds and input samples *)

\* how many extra fields a drifted struct definition may gain
MaxAddedFields == 1

\* the chip families the cfg attributes of this file name; a build for any
\* other family, or with several features at once, enables the same variants
\* as one of these
Features == {"imxrt1010", "imxrt1060", "imxrt1064", "imxrt500"}

\* u32 arguments tried for page_size / sector_size (4095 is the smoke test's
\* sector size; the largest is 2^31 - 1, the biggest integer TLC holds)
U32Samples == {0, 256, 4095, 4096, 2147483647}

\* device_type values found in the incoming FlexSPI block
DeviceTypeSamples == {0, 1, 255}

\* tokens standing for the rest of the incoming FlexSPI block
MemCfgRestSamples == {"lut_a", "lut_b"}

MemCfgInputs ==
    [device_type : DeviceTypeSamples, rest : MemCfgRestSamples]

\* widths a drifted integer field may take (u8, u16, u32, u64)
DriftWidths == {1, 2, 4, 8}

\* lengths a miscounted reserved region may take
DriftReservedLens == 48..56

----------------------------------------------------------------------------
(* SerialClockFrequency *)

\* the variants in declaration order, with the frequency each one names
SerialClockFrequency ==
    << [name |-> "NoChange", mhz |-> 0],
       [name |-> "MHz30",    mhz |-> 30],
       [name |-> "MHz50",    mhz |-> 50],
       [name |-> "MHz60",    mhz |-> 60],
       [name |-> "MHz75",    mhz |-> 75],
       [name |-> "MHz80",    mhz |-> 80],
       [name |-> "MHz100",   mhz |-> 100],
       [name |-> "MHz120",   mhz |-> 120],
       [name |-> "MHz133",   mhz |-> 133],
       [name |-> "MHz166",   mhz |-> 166] >>

VariantNames == {SerialClockFrequency[i].name : i \in DOMAIN SerialClockFrequency}

\* where each variant stands in the declaration
VariantIndexTable ==
    [v \in VariantNames |->
        CHOOSE i \in DOMAIN SerialClockFrequency : SerialClockFrequency[i].name = v]

VariantIndex(v) == VariantIndexTable[v]

\* a mis-written cfg: MHz75 is compiled in for every family
cfg_enabled_MHz75Everywhere(v, f) ==
    CASE v \in {"MHz120", "MHz166"} -> f \in {"imxrt1060", "imxrt1064", "imxrt500"}
      [] OTHER -> TRUE

\* the #[cfg(...)] attribute on variant v under feature f
cfg_enabled(v, f) ==
    CASE v = "MHz75" -> f /= "imxrt500"
      [] v \in {"MHz120", "MHz166"} -> f \in {"imxrt1060", "imxrt1064", "imxrt500"}
      [] OTHER -> TRUE

EnabledVariants(f) == {v \in VariantNames : cfg_enabled(v, f)}

\* every variant keeps the code of its place in the full list, compiled in or not
next_discriminant_Fixed(i, f) == i - 1

\* the value rustc gives the variant at position i: NoChange = 0 is explicit,
\* every later variant is one more than the previous variant that was
\* compiled in; a variant that is cfg'd out takes no value
RECURSIVE next_discriminant(_, _)
next_discriminant(i, f) ==
    IF i = 1 THEN 0
    ELSE IF cfg_enabled(SerialClockFrequency[i - 1].name, f)
         THEN next_discriminant(i - 1, f) + 1
         ELSE next_discriminant(i - 1, f)

\* `variant as u8` (#[repr(u8)])
as_u8(v, f) == next_discriminant(VariantIndex(v), f) % 256

\* `variant as u32`: the u8 discriminant, zero-extended
as_u32(v, f) == as_u8(v, f)

----------------------------------------------------------------------------
(* struct ConfigurationBlock: layout *)

\* size_of::<flexspi::ConfigurationBlock>() (defined in flexspi.rs)
size_of_flexspi_ConfigurationBlock == 448

\* size_of::<u32>()
size_of_u32 == 4

\* length of _reserved: [u8; 52]
RESERVED_LEN == 52

\* the size the boot ROM mandates, as written in _STATIC_ASSERT_SIZE
ROM_SIZE == 512

\* page_size declared u64 instead of u32
ConfigurationBlockFields_WidePage ==
    << [name |-> "mem_cfg",                size |-> size_of_flexspi_ConfigurationBlock],
       [name |-> "page_size",              size |-> 2 * size_of_u32],
       [name |-> "sector_size",            size |-> size_of_u32],
       [name |-> "ip_cmd_serial_clk_freq", size |-> size_of_u32],
       [name |-> "_reserved",              size |-> RESERVED_LEN] >>

\* the fields of struct ConfigurationBlock in declaration order
ConfigurationBlockFields ==
    << [name |-> "mem_cfg",                size |-> size_of_flexspi_ConfigurationBlock],
       [name |-> "page_size",              size |-> size_of_u32],
       [name |-> "sector_size",            size |-> size_of_u32],
       [name |-> "ip_cmd_serial_clk_freq", size |-> size_of_u32],
       [name |-> "_reserved",              size |-> RESERVED_LEN] >>

\* #[repr(C, packed)]: fields in declaration order, alignment 1, no padding,
\* so field i starts where field i-1 ends
RECURSIVE offset_of(_, _)
offset_of(fields, i) ==
    IF i = 1 THEN 0
    ELSE offset_of(fields, i - 1) + fields[i - 1].size

\* core::mem::size_of for a #[repr(C, packed)] struct with these fields
size_of(fields) == offset_of(fields, Len(fields) + 1)

----------------------------------------------------------------------------
(* _STATIC_ASSERT_SIZE *)

\* `b as usize`
bool_as_usize(b) == IF b THEN 1 ELSE 0

\* the assertion only rejects records that are too small
static_assert_len_AtLeast(fields) == bool_as_usize(size_of(fields) >= ROM_SIZE)

\* length of the initialiser [0; (size_of::<ConfigurationBlock>() == 512) as usize]
static_assert_len(fields) == bool_as_usize(size_of(fields) = ROM_SIZE)

\* const _STATIC_ASSERT_SIZE: [u32; 1] = <initialiser>: the item type-checks
\* only when the initialiser has the declared length 1
compile(fields) ==
    IF static_assert_len(fields) = 1 THEN "ok" ELSE "rejected"

----------------------------------------------------------------------------
(* struct ConfigurationBlock: values and the const builder *)

\* new forgets to zero the page size
new_StalePage(mem_cfg) ==
    [ mem_cfg                |-> [mem_cfg EXCEPT !.device_type = 1],
      page_size              |-> 256,
      sector_size            |-> 0,
      ip_cmd_serial_clk_freq |-> 0,
      _reserved              |-> [i \in 1..RESERVED_LEN |-> 0] ]

\* new keeps the caller's device_type
new_KeepDeviceType(mem_cfg) ==
    [ mem_cfg                |-> mem_cfg,
      page_size              |-> 0,
      sector_size            |-> 0,
      ip_cmd_serial_clk_freq |-> 0,
      _reserved              |-> [i \in 1..RESERVED_LEN |-> 0] ]

\* ConfigurationBlock::new
new(mem_cfg) ==
    [ mem_cfg                |-> [mem_cfg EXCEPT !.device_type = 1],
      page_size              |-> 0,
      sector_size            |-> 0,
      ip_cmd_serial_clk_freq |-> 0,
      _reserved              |-> [i \in 1..RESERVED_LEN |-> 0] ]

\* page_size rebuilds the record from scratch and loses the sector size
page_size_ResetsSector(self, v) ==
    [self EXCEPT !.page_size = v, !.sector_size = 0]

\* ConfigurationBlock::page_size
page_size(self, v) == [self EXCEPT !.page_size = v]

\* sector_size only accepts powers of two and otherwise leaves the field alone
sector_size_Validating(self, v) ==
    IF \E k \in 0..30 : v = 2 ^ k
    THEN [self EXCEPT !.sector_size = v]
    ELSE self

\* ConfigurationBlock::sector_size
sector_size(self, v) == [self EXCEPT !.sector_size = v]

\* the setter scribbles the selector into the reserved region as well
ip_cmd_serial_clk_freq_TouchesReserved(self, v, f) ==
    [self EXCEPT !.ip_cmd_serial_clk_freq = as_u32(v, f),
                 !._reserved[1] = as_u32(v, f)]

\* the setter stores the frequency in MHz instead of the selector's code
ip_cmd_serial_clk_freq_StoresMHz(self, v, f) ==
    [self EXCEPT !.ip_cmd_serial_clk_freq = SerialClockFrequency[VariantIndex(v)].mhz]

\* ConfigurationBlock::ip_cmd_serial_clk_freq, for the crate built with feature f
ip_cmd_serial_clk_freq(self, v, f) ==
    [self EXCEPT !.ip_cmd_serial_clk_freq = as_u32(v, f)]

----------------------------------------------------------------------------
(* memory image of a record *)

\* the bytes of an integer field, least significant first (the i.MX RT
\* targets are little-endian)
le_bytes(x, width) == [i \in 1..width |-> (x \div (256 ^ (i - 1))) % 256]

\* the bytes of the embedded FlexSPI block; what each byte holds is decided
\* in flexspi.rs, so byte i is kept as "byte i of this block"
mem_cfg_bytes(m) ==
    [i \in 1..size_of_flexspi_ConfigurationBlock |-> [block |-> m, offset |-> i - 1]]

\* the memory image of a record: its fields back to back (packed)
as_bytes(r) ==
    mem_cfg_bytes(r.mem_cfg)
        \o le_bytes(r.page_size, size_of_u32)
        \o le_bytes(r.sector_size, size_of_u32)
        \o le_bytes(r.ip_cmd_serial_clk_freq, size_of_u32)
        \o r._reserved

\* two memory images are the same bytes: as_bytes lays fixed-width fields
\* back to back, so the images agree exactly when every field's bytes agree
byte_identical(a, b) ==
    /\ a.mem_cfg = b.mem_cfg
    /\ le_bytes(a.page_size, size_of_u32) = le_bytes(b.page_size, size_of_u32)
    /\ le_bytes(a.sector_size, size_of_u32) = le_bytes(b.sector_size, size_of_u32)
    /\ le_bytes(a.ip_cmd_serial_clk_freq, size_of_u32)
          = le_bytes(b.ip_cmd_serial_clk_freq, size_of_u32)
    /\ a._reserved = b._reserved

\* reads the u32 stored at a byte offset of a memory image
read_u32(bytes, offset) ==
    bytes[offset + 1] + 256 * bytes[offset + 2]
        + 65536 * bytes[offset + 3] + 16777216 * bytes[offset + 4]

----------------------------------------------------------------------------
(* The construction chain *)

Init ==
    /\ feature \in Features
    /\ \E m \in MemCfgInputs :
          /\ arg_mem_cfg = m
          /\ cb = new(m)
          /\ last = [op |-> "new", arg |-> 0]
    /\ layout = ConfigurationBlockFields
    /\ build = compile(ConfigurationBlockFields)

\* nor::ConfigurationBlock::new(m) starts another chain
New ==
    \E m \in MemCfgInputs :
        /\ arg_mem_cfg' = m
        /\ cb' = new(m)
        /\ last' = [op |-> "new", arg |-> 0]
        /\ UNCHANGED <<feature, layout, build>>

\* .page_size(v)
PageSize ==
    \E v \in U32Samples :
        /\ cb' = page_size(cb, v)
        /\ last' = [op |-> "page_size", arg |-> v]
        /\ UNCHANGED <<feature, arg_mem_cfg, layout, build>>

\* .sector_size(v)
SectorSize ==
    \E v \in U32Samples :
        /\ cb' = sector_size(cb, v)
        /\ last' = [op |-> "sector_size", arg |-> v]
        /\ UNCHANGED <<feature, arg_mem_cfg, layout, build>>

\* .ip_cmd_serial_clk_freq(v), v one of the variants compiled in
IpCmdSerialClkFreq ==
    \E v \in EnabledVariants(feature) :
        /\ cb' = ip_cmd_serial_clk_freq(cb, v, feature)
        /\ last' = [op |-> "ip_cmd_serial_clk_freq", arg |-> VariantIndex(v)]
        /\ UNCHANGED <<feature, arg_mem_cfg, layout, build>>

Next == New \/ PageSize \/ SectorSize \/ IpCmdSerialClkFreq

Spec == Init /\ [][Next]_vars

----------------------------------------------------------------------------
(* Editing the struct definition: every edit is followed by a compilation, *)
(* which evaluates _STATIC_ASSERT_SIZE whether or not a record is ever     *)
(* built                                                                   *)

\* where page_size, sector_size and ip_cmd_serial_clk_freq stand in the struct
IntegerFields == {2, 3, 4}

\* _reserved is the last field
ReservedField == Len(ConfigurationBlockFields)

\* one of the u32 fields is declared with another width
ChangeFieldWidth ==
    \E i \in IntegerFields, w \in DriftWidths :
        /\ layout' = [layout EXCEPT ![i].size = w]
        /\ build' = compile(layout')
        /\ UNCHANGED <<feature, arg_mem_cfg, cb, last>>

\* _reserved is declared with another length
ResizeReserved ==
    \E n \in DriftReservedLens :
        /\ layout' = [layout EXCEPT ![ReservedField].size = n]
        /\ build' = compile(layout')
        /\ UNCHANGED <<feature, arg_mem_cfg, cb, last>>

\* a field is added at the end of the struct
AddField ==
    /\ Len(layout) < Len(ConfigurationBlockFields) + MaxAddedFields
    /\ \E w \in DriftWidths :
        /\ layout' = Append(layout, [name |-> "added", size |-> w])
        /\ build' = compile(layout')
    /\ UNCHANGED <<feature, arg_mem_cfg, cb, last>>

NextLayout == ChangeFieldWidth \/ ResizeReserved \/ AddField

\* the struct as declared, and one record built from it
InitLayout ==
    /\ Init
    /\ arg_mem_cfg = [device_type |-> 0, rest |-> "lut_a"]

SpecLayout == InitLayout /\ [][NextLayout]_vars

----------------------------------------------------------------------------
(* Properties *)

\* the field widths added up one by one
RECURSIVE SummedWidths(_)
SummedWidths(fields) ==
    IF fields = <<>> THEN 0
    ELSE Head(fields).size + SummedWidths(Tail(fields))

\* the position of variant v among the variants compiled in for feature f
PositionAmongEnabled(v, f) ==
    Cardinality({w \in EnabledVariants(f) : VariantIndex(w) < VariantIndex(v)})

AllZero(seq) == \A i \in DOMAIN seq : seq[i] = 0

\* C1: for every construction chain the record is exactly 512 bytes: the
\* packed fields are 448 + 4 + 4 + 4 + 52 bytes laid back to back with no
\* padding, and no builder step changes the layout or the size of the value.
C1_SizeIs512 ==
    /\ layout = ConfigurationBlockFields
    /\ [i \in DOMAIN layout |-> layout[i].size] = <<448, 4, 4, 4, 52>>
    /\ [i \in DOMAIN layout |-> offset_of(layout, i)] = <<0, 448, 452, 456, 460>>
    /\ size_of(layout) = 512
    /\ SummedWidths(layout) = 512
    /\ build = "ok"
    /\ Len(as_bytes(cb)) = 512

\* a record with every builder field set, whose last step was a builder call
C1_Witness ==
    /\ last.op = "ip_cmd_serial_clk_freq"
    /\ cb.page_size = 2147483647
    /\ cb.sector_size = 4095
    /\ cb.ip_cmd_serial_clk_freq > 0
    /\ Len(as_bytes(cb)) = 512

\* C2: the documented encodings: imxrt500 has MHz80 = 4 and MHz166 = 8,
\* imxrt1010 has MHz133 = 7; in every family a variant's encoding is its
\* position, counted from NoChange = 0, among the variants compiled in.
C2_DocumentedEncodings ==
    /\ feature = "imxrt500" =>
          /\ as_u8("MHz80", feature) = 4
          /\ as_u8("MHz166", feature) = 8
    /\ feature = "imxrt1010" => as_u8("MHz133", feature) = 7
    /\ \A v \in EnabledVariants(feature) :
          as_u8(v, feature) = PositionAmongEnabled(v, feature)

\* built for imxrt500, MHz166 was just selected and is stored as 8
C2_Witness ==
    /\ feature = "imxrt500"
    /\ last = [op |-> "ip_cmd_serial_clk_freq", arg |-> VariantIndex("MHz166")]
    /\ cb.ip_cmd_serial_clk_freq = 8

\* C3: whatever device_type the incoming FlexSPI block holds, the record's
\* mem_cfg.device_type is 1 after new and after every builder call.
C3_DeviceTypeForced ==
    /\ cb.mem_cfg.device_type = 1
    /\ new(arg_mem_cfg).mem_cfg.device_type = 1

\* the incoming block said 255, and a builder call has run since
C3_Witness ==
    /\ arg_mem_cfg.device_type = 255
    /\ last.op = "sector_size"
    /\ cb.sector_size = 4096
    /\ cb.mem_cfg.device_type = 1

\* C4: right after new, page_size, sector_size and ip_cmd_serial_clk_freq
\* are 0 (the code of NoChange), the 52 reserved bytes are 0, and of the
\* embedded block only device_type was touched.
C4_UnsetFieldsZero ==
    last.op = "new" =>
        /\ cb.page_size = 0
        /\ cb.sector_size = 0
        /\ cb.ip_cmd_serial_clk_freq = 0
        /\ cb.ip_cmd_serial_clk_freq = as_u32("NoChange", feature)
        /\ Len(cb._reserved) = 52
        /\ AllZero(cb._reserved)
        /\ AllZero(SubSeq(as_bytes(cb), 449, 512))
        /\ cb.mem_cfg.rest = arg_mem_cfg.rest
        /\ cb.mem_cfg.device_type \in {1, arg_mem_cfg.device_type}

\* new has just run on a block whose device_type was 0
C4_Witness ==
    /\ last.op = "new"
    /\ arg_mem_cfg = [device_type |-> 0, rest |-> "lut_b"]
    /\ cb.mem_cfg = [device_type |-> 1, rest |-> "lut_b"]
    /\ cb.page_size = 0

\* C5: any two distinct setters commute: applied to any record in either
\* order with the same arguments they give byte-identical records.
C5_SettersCommute ==
    /\ \A p \in U32Samples, s \in U32Samples :
          byte_identical(sector_size(page_size(cb, p), s),
                         page_size(sector_size(cb, s), p))
    /\ \A v \in EnabledVariants(feature) :
          LET clocked == ip_cmd_serial_clk_freq(cb, v, feature)
          IN  \A p \in U32Samples :
                /\ byte_identical(ip_cmd_serial_clk_freq(page_size(cb, p), v, feature),
                                  page_size(clocked, p))
                /\ byte_identical(ip_cmd_serial_clk_freq(sector_size(cb, p), v, feature),
                                  sector_size(clocked, p))

\* sector_size(4096) came before page_size(256), the reverse of the documented
\* chain, and the record holds both
C5_Witness ==
    /\ last = [op |-> "page_size", arg |-> 256]
    /\ cb.sector_size = 4096
    /\ cb.page_size = 256
    /\ cb = sector_size(page_size(cb, 256), 4096)

\* C6: ip_cmd_serial_clk_freq stores the selector's code for the family,
\* zero-extended to 32 bits; new(..).page_size(256).sector_size(4096)
\* .ip_cmd_serial_clk_freq(MHz30) has page size 256, sector size 4096,
\* frequency 1 and is 512 bytes long.
C6_ClockFrequencyField ==
    /\ last.op = "ip_cmd_serial_clk_freq" =>
          /\ cb.ip_cmd_serial_clk_freq
                = PositionAmongEnabled(SerialClockFrequency[last.arg].name, feature)
          /\ SubSeq(as_bytes(cb), 457, 460)
                = <<PositionAmongEnabled(SerialClockFrequency[last.arg].name, feature),
                    0, 0, 0>>
    /\ LET r == ip_cmd_serial_clk_freq(
                    sector_size(page_size(new(arg_mem_cfg), 256), 4096),
                    "MHz30", feature)
           image == as_bytes(r)
       IN  /\ r.page_size = 256
           /\ r.sector_size = 4096
           /\ r.ip_cmd_serial_clk_freq = 1
           /\ read_u32(image, 448) = 256
           /\ read_u32(image, 452) = 4096
           /\ read_u32(image, 456) = 1
           /\ Len(image) = 512

\* the documented chain has just ended with ip_cmd_serial_clk_freq(MHz30)
C6_Witness ==
    /\ last = [op |-> "ip_cmd_serial_clk_freq", arg |-> VariantIndex("MHz30")]
    /\ cb = ip_cmd_serial_clk_freq(
                sector_size(page_size(new(arg_mem_cfg), 256), 4096),
                "MHz30", feature)
    /\ cb.ip_cmd_serial_clk_freq = 1

\* the values a ConfigurationBlock can hold
ConfigurationBlockValues ==
    [ mem_cfg                : [device_type : 0..255, rest : MemCfgRestSamples],
      page_size              : Nat,
      sector_size            : Nat,
      ip_cmd_serial_clk_freq : Nat,
      _reserved              : [1..52 -> 0..255] ]

\* C7: the builder has no error path and validates nothing: every call
\* returns a record, and page_size(v) / sector_size(v) store v verbatim for
\* every v, legal for a device or not (sector size 4095 included).
C7_NoValidation ==
    /\ cb \in ConfigurationBlockValues
    /\ \A v \in U32Samples :
          /\ page_size(cb, v) \in ConfigurationBlockValues
          /\ page_size(cb, v).page_size = v
          /\ sector_size(cb, v) \in ConfigurationBlockValues
          /\ sector_size(cb, v).sector_size = v
    /\ \A v \in EnabledVariants(feature) :
          ip_cmd_serial_clk_freq(cb, v, feature) \in ConfigurationBlockValues
    /\ last.op = "page_size" => cb.page_size = last.arg
    /\ last.op = "sector_size" => cb.sector_size = last.arg

\* the smoke test's sector size, no power of two, was just stored
C7_Witness ==
    /\ last = [op |-> "sector_size", arg |-> 4095]
    /\ cb.sector_size = 4095
    /\ cb.page_size = 256

\* the codes of the variants compiled in for the feature the crate is built with
CodeTable == [v \in EnabledVariants(feature) |-> as_u8(v, feature)]

\* tier v is cfg'd out, p is the last tier compiled in before it and w the
\* first one after it
SkippedBetween(p, v, w, f) ==
    /\ ~cfg_enabled(v, f)
    /\ cfg_enabled(p, f) /\ cfg_enabled(w, f)
    /\ VariantIndex(p) < VariantIndex(v) /\ VariantIndex(v) < VariantIndex(w)
    /\ \A x \in EnabledVariants(f) :
          ~(VariantIndex(p) < VariantIndex(x) /\ VariantIndex(x) < VariantIndex(w))

NoChangeIsZero == as_u8("NoChange", feature) = 0

\* the codes of the tiers compiled in grow strictly with the frequency named
CodesIncreaseWithFrequency ==
    LET code == CodeTable
    IN  \A v \in DOMAIN code, w \in DOMAIN code :
            SerialClockFrequency[VariantIndex(v)].mhz
                    < SerialClockFrequency[VariantIndex(w)].mhz
                => code[v] < code[w]

\* C8 as stated: NoChange is 0, the codes grow strictly with the frequency,
\* and the code of a skipped tier is left as a gap, so that the next tier
\* does not follow directly on the previous one.
C8_Original_GapLeft ==
    /\ NoChangeIsZero
    /\ CodesIncreaseWithFrequency
    /\ LET code == CodeTable
       IN  \A v \in VariantNames \ DOMAIN code, p \in DOMAIN code, w \in DOMAIN code :
              SkippedBetween(p, v, w, feature) => code[w] > code[p] + 1

\* C8 amended: NoChange is 0, the codes grow strictly with the frequency,
\* and a skipped tier leaves no gap: the next tier compiled in takes the
\* code that follows the previous one, so a family's codes are 0..n-1.
C8_CodesDense ==
    /\ NoChangeIsZero
    /\ CodesIncreaseWithFrequency
    /\ LET code == CodeTable
       IN  /\ \A v \in VariantNames \ DOMAIN code, p \in DOMAIN code, w \in DOMAIN code :
                 SkippedBetween(p, v, w, feature) => code[w] = code[p] + 1
           /\ {code[v] : v \in DOMAIN code} = 0..(Cardinality(DOMAIN code) - 1)

\* built for imxrt500, where MHz75 is skipped: MHz80 was just selected and
\* is stored as 4, directly after MHz60 = 3
C8_Witness ==
    /\ feature = "imxrt500"
    /\ SkippedBetween("MHz60", "MHz75", "MHz80", feature)
    /\ last = [op |-> "ip_cmd_serial_clk_freq", arg |-> VariantIndex("MHz80")]
    /\ cb.ip_cmd_serial_clk_freq = 4

\* C9: a builder step changes its own field only; the embedded block stays
\* what new made of its argument and the reserved bytes stay zero.
C9_Frame ==
    [][ /\ last'.op = "page_size" =>
              /\ cb'.mem_cfg = cb.mem_cfg
              /\ cb'.sector_size = cb.sector_size
              /\ cb'.ip_cmd_serial_clk_freq = cb.ip_cmd_serial_clk_freq
              /\ cb'._reserved = cb._reserved
        /\ last'.op = "sector_size" =>
              /\ cb'.mem_cfg = cb.mem_cfg
              /\ cb'.page_size = cb.page_size
              /\ cb'.ip_cmd_serial_clk_freq = cb.ip_cmd_serial_clk_freq
              /\ cb'._reserved = cb._reserved
        /\ last'.op = "ip_cmd_serial_clk_freq" =>
              /\ cb'.mem_cfg = cb.mem_cfg
              /\ cb'.page_size = cb.page_size
              /\ cb'.sector_size = cb.sector_size
              /\ cb'._reserved = cb._reserved
        /\ cb'.mem_cfg = [arg_mem_cfg' EXCEPT !.device_type = 1]
        /\ AllZero(cb'._reserved)
      ]_vars

\* page_size has just run on a record whose other fields were already set,
\* and they are still there
C9_Witness ==
    /\ last = [op |-> "page_size", arg |-> 256]
    /\ cb.page_size = 256
    /\ cb.sector_size = 4095
    /\ cb.ip_cmd_serial_clk_freq = 3
    /\ cb.mem_cfg = [device_type |-> 1, rest |-> "lut_b"]
    /\ AllZero(cb._reserved)

\* how many declarations differ from the struct as written
DriftCount ==
    Cardinality({i \in DOMAIN ConfigurationBlockFields :
                    layout[i] /= ConfigurationBlockFields[i]})
        + (Len(layout) - Len(ConfigurationBlockFields))

\* the assertion type-checks exactly when the widths sum to 512
AssertIffSize512 ==
    /\ (static_assert_len(layout) = 1) <=> (SummedWidths(layout) = 512)
    /\ (static_assert_len(layout) = 0) <=> (SummedWidths(layout) /= 512)
    /\ (build = "ok") <=> (SummedWidths(layout) = 512)
    /\ (build = "rejected") <=> (SummedWidths(layout) /= 512)

\* C10 as stated: the assertion type-checks exactly when the widths sum to
\* 512, and any layout drift gives length 0 and is rejected.
C10_Original_AnyDriftRejected ==
    /\ AssertIffSize512
    /\ DriftCount > 0 =>
          /\ static_assert_len(layout) = 0
          /\ build = "rejected"

\* C10 amended: the assertion type-checks exactly when the widths sum to
\* 512; a drift that changes the sum gives length 0 and is rejected, and
\* every single drift (one width changed, one field added, a reserved
\* length other than 52) does change it.
C10_SizeChangingDriftRejected ==
    /\ AssertIffSize512
    /\ DriftCount = 1 =>
          /\ SummedWidths(layout) /= 512
          /\ static_assert_len(layout) = 0
          /\ build = "rejected"

\* only _reserved was miscounted (48 instead of 52): the build is rejected
C10_Witness ==
    /\ DriftCount = 1
    /\ layout[ReservedField].size = 48
    /\ build = "rejected"

====
